---- MODULE Spec2Model ----
(***************************************************************************)
(* Model of pardes.semantic_graph.SemanticGraph (the Sod layer) and of the *)
(* part of pardes.text_parser.TextParser it drives.                        *)
(*                                                                         *)
(* The store is a networkx.Graph: an insertion-ordered node dictionary     *)
(* with one attribute dictionary per node, and one attribute dictionary    *)
(* per undirected edge.  An edge is keyed by the set of its endpoints, so  *)
(* {u} is a self-loop on u, which networkx.Graph accepts.                  *)
(*                                                                         *)
(* Texts are sequences of lexemes joined by single blanks; the regular     *)
(* expressions of TextParser are modelled on the lexicon below.            *)
(* Numbers that Python holds as floats (weights, density) are exact        *)
(* fractions <<numerator, denominator>> in lowest terms.                   *)
(***************************************************************************)
EXTENDS Integers, Sequences, FiniteSets, Bags, TLC

\* graph, ptext and psent are the program's state: SemanticGraph.graph and the
\* text and _sentences fields of SemanticGraph._parser.  call, ret and exc
\* record the last call, what it returned and the exception it raised.
\* pre is a history variable: the graph as the last call found it.
VARIABLES graph, ptext, psent, call, ret, exc, pre

vars == <<graph, ptext, psent, call, ret, exc, pre>>

(***************************************************************************)
(* Bounds of the model.                                                    *)
(***************************************************************************)
\* longest text handed to the builders on a store that is only rebuilt
MaxTokens == 4
\* longest text handed to the builders on a store that is also edited by hand
MaxPriorTokens == 2
\* largest radius handed to get_neighborhood
MaxRadius == 3

(***************************************************************************)
(* Input universes.                                                        *)
(***************************************************************************)
\* identifiers handed to add_concept_node / add_relationship and the queries
Concepts == {"a", "x"}
\* an identifier that the bounded runs never insert
Absent == "zz"
\* weights handed to add_relationship (1 stands for the default 1.0)
Weights == {1, 2}
\* relationship_type values ("related" is the default)
RelTypes == {"related"}
\* keyword attributes handed to add_concept_node
NodeAttrs == {<<>>, [type |-> "t"]}

(***************************************************************************)
(* Exact fractions.                                                        *)
(***************************************************************************)
RECURSIVE Gcd(_, _)
Gcd(m, n) == IF n = 0 THEN m ELSE Gcd(n, m % n)

Frac(n, d) == IF n = 0 THEN <<0, 1>> ELSE <<n \div Gcd(n, d), d \div Gcd(n, d)>>

FracLeq(p, q) == p[1] * q[2] <= q[1] * p[2]

Max(m, n) == IF m >= n THEN m ELSE n

Min(m, n) == IF m <= n THEN m ELSE n

Range(s) == {s[i] : i \in DOMAIN s}

\* dict.update: keys of new are added or overwritten, the others are kept
DictUpdate(old, new) ==
    [k \in (DOMAIN old) \cup (DOMAIN new) |->
        IF k \in DOMAIN new THEN new[k] ELSE old[k]]

(***************************************************************************)
(* networkx.Graph as SemanticGraph uses it.                                *)
(***************************************************************************)
EmptyGraph == [order |-> <<>>, nattr |-> <<>>, eattr |-> <<>>]

NodeSet(G) == Range(G.order)

EdgeSet(G) == DOMAIN G.eattr

HasNode(G, n) == n \in NodeSet(G)

HasEdge(G, u, v) == {u, v} \in EdgeSet(G)

\* G.neighbors(n): a node with a self-loop is its own neighbour
Neighbors(G, n) == {m \in NodeSet(G) : {n, m} \in EdgeSet(G)}

\* add_node that replaces the attribute dictionary of an existing node
GraphAddNodeReplace(G, n, attr) ==
    IF HasNode(G, n)
    THEN [G EXCEPT !.nattr[n] = attr]
    ELSE [G EXCEPT !.order = Append(@, n), !.nattr = (n :> attr) @@ @]

\* Graph.add_node(n, **attr)
GraphAddNode(G, n, attr) ==
    IF HasNode(G, n)
    THEN [G EXCEPT !.nattr[n] = DictUpdate(@, attr)]
    ELSE [G EXCEPT !.order = Append(@, n), !.nattr = (n :> attr) @@ @]

\* add_edge that records the edge without creating its endpoints
GraphAddEdgeOnly(G, u, v, attr) ==
    LET old == IF {u, v} \in EdgeSet(G) THEN G.eattr[{u, v}] ELSE <<>>
    IN  [G EXCEPT !.eattr = ({u, v} :> DictUpdate(old, attr)) @@ @]

\* add_edge that replaces the attribute dictionary of an existing edge
GraphAddEdgeReplace(G, u, v, attr) ==
    LET G1 == GraphAddNode(GraphAddNode(G, u, <<>>), v, <<>>)
    IN  [G1 EXCEPT !.eattr = [e \in EdgeSet(G1) \cup {{u, v}} |->
                                 IF e = {u, v} THEN attr ELSE G1.eattr[e]]]

\* Graph.add_edge(u, v, **attr): both endpoints are created when missing;
\* u == v is accepted and stored as a self-loop
GraphAddEdge(G, u, v, attr) ==
    LET G1 == IF HasNode(G, u) THEN G ELSE GraphAddNode(G, u, <<>>)
        G2 == IF HasNode(G1, v) THEN G1 ELSE GraphAddNode(G1, v, <<>>)
        old == IF {u, v} \in EdgeSet(G2) THEN G2.eattr[{u, v}] ELSE <<>>
    IN  [G2 EXCEPT !.eattr = ({u, v} :> DictUpdate(old, attr)) @@ @]

\* a clear that leaves the store as it is
GraphKeep(G) == G

\* clear that removes the edges and leaves the nodes
GraphClearEdges(G) == [G EXCEPT !.eattr = <<>>]

\* Graph.clear()
GraphClear(G) == EmptyGraph

(***************************************************************************)
(* TextParser.  A text is a sequence of lexemes joined by single blanks.   *)
(* "a" is a lower-case word; "B." is a capitalised word followed by a full *)
(* stop, so it both ends a sentence and can start one.                     *)
(***************************************************************************)
Lexicon == {"a", "B."}

\* the match of \b[a-zA-Z0-9]+(?:-[a-zA-Z0-9]+)*\b inside each lexeme
LexWord == ("a" :> "a") @@ ("B." :> "B")

\* str.lower() on the words
Lower == ("a" :> "a") @@ ("B" :> "b") @@ ("b" :> "b")

\* (?<=[.!?]) holds at the end of the lexeme
EndsSentence == ("a" :> FALSE) @@ ("B." :> TRUE)

\* (?=[A-Z]) holds at the start of the lexeme
StartsCapital == ("a" :> FALSE) @@ ("B." :> TRUE)

\* number of characters of each lexeme
LexLen == ("a" :> 1) @@ ("B." :> 2)

\* the order of str comparison on the words (upper case sorts first)
WordRank == ("B" :> 1) @@ ("a" :> 2) @@ ("b" :> 3)

NoSentences == [cached |-> FALSE, val |-> <<>>]

\* load_text that leaves the cached sentences in place
load_text_keeping_sentences(text) == <<text, psent>>

\* TextParser.load_text: returns the parser state <<text, _sentences>>
load_text(text) == <<text, NoSentences>>

RECURSIVE SplitSentences(_, _, _)
\* re.split on the pattern of segment_sentences: the text is cut between
\* lexeme i and lexeme i+1 when the first ends a sentence and the second
\* starts with a capital; cur is the piece collected so far
SplitSentences(text, i, cur) ==
    IF i > Len(text) THEN <<cur>>
    ELSE IF i > 1 /\ EndsSentence[text[i-1]] /\ StartsCapital[text[i]]
         THEN <<cur>> \o SplitSentences(text, i + 1, <<text[i]>>)
         ELSE SplitSentences(text, i + 1, Append(cur, text[i]))

\* TextParser.segment_sentences on a parser holding text with no cache:
\* empty pieces are dropped
segment_sentences(text) ==
    SelectSeq(SplitSentences(text, 1, <<>>), LAMBDA s : s # <<>>)

\* TextParser.tokenize_words
tokenize_words(text, lowercase) ==
    [i \in DOMAIN text |->
        IF lowercase THEN Lower[LexWord[text[i]]] ELSE LexWord[text[i]]]

\* number of characters of a text
RECURSIVE CharLen(_)
CharLen(text) ==
    IF text = <<>> THEN 0
    ELSE LexLen[Head(text)] + (IF Len(text) > 1 THEN 1 ELSE 0) + CharLen(Tail(text))

(***************************************************************************)
(* Python helpers                                                          *)
(***************************************************************************)
\* s[lo:hi] for 0-based lo >= 0 and any integer hi
PySlice(s, lo, hi) ==
    LET n == Len(s)
        h0 == IF hi < 0 THEN Max(hi + n, 0) ELSE Min(hi, n)
        l0 == Min(lo, n)
    IN  IF h0 <= l0 THEN <<>> ELSE SubSeq(s, l0 + 1, h0)

\* the pair left in the order of the window
UnsortedPair(x, y) == <<x, y>>

\* tuple(sorted([x, y]))
SortedPair(x, y) == IF WordRank[x] <= WordRank[y] THEN <<x, y>> ELSE <<y, x>>

FracAdd(p, q) == Frac(p[1] * q[2] + q[1] * p[2], p[2] * q[2])

(***************************************************************************)
(* build_cooccurrence_graph                                                *)
(***************************************************************************)
RECURSIVE WindowPairs(_, _, _)
\* the pairs of one window in the order of the loops over j and k
WindowPairs(window, j, k) ==
    IF j > Len(window) THEN <<>>
    ELSE IF k > Len(window) THEN WindowPairs(window, j + 1, j + 2)
    ELSE <<SortedPair(window[j], window[k])>> \o WindowPairs(window, j, k + 1)

RECURSIVE ScanWindows(_, _, _)
\* the pairs of all windows in the order of the loop over i (0-based)
ScanWindows(words, window_size, i) ==
    IF i >= Len(words) THEN <<>>
    ELSE WindowPairs(PySlice(words, i, i + window_size), 1, 2)
             \o ScanWindows(words, window_size, i + 1)

RECURSIVE CountPairs(_, _)
\* co_occurrence[pair] += 1 over the pairs; keys holds the insertion order
CountPairs(pairs, co) ==
    IF pairs = <<>> THEN co
    ELSE LET p == Head(pairs)
         IN  CountPairs(Tail(pairs),
                IF p \in DOMAIN co.cnt
                THEN [co EXCEPT !.cnt[p] = @ + 1]
                ELSE [keys |-> Append(co.keys, p), cnt |-> (p :> 1) @@ co.cnt])

co_occurrence(words, window_size) ==
    CountPairs(ScanWindows(words, window_size, 0), [keys |-> <<>>, cnt |-> <<>>])

RECURSIVE AddCountedEdges(_, _, _, _)
\* the loop over co_occurrence.items()
AddCountedEdges(G, co, min_frequency, n) ==
    IF n > Len(co.keys) THEN G
    ELSE LET word1 == co.keys[n][1]
             word2 == co.keys[n][2]
             count == co.cnt[co.keys[n]]
             G1 == IF count >= min_frequency
                   THEN IF HasEdge(G, word1, word2)
                        THEN [G EXCEPT !.eattr[{word1, word2}].weight =
                                            FracAdd(@, Frac(count, 1))]
                        ELSE GraphAddEdge(G, word1, word2, [weight |-> Frac(count, 1)])
                   ELSE G
         IN  AddCountedEdges(G1, co, min_frequency, n + 1)

RECURSIVE AddTokenNodes(_, _, _)
\* one node per token, in the order of the text
AddTokenNodes(G, words, n) ==
    IF n > Len(words) THEN G
    ELSE AddTokenNodes(GraphAddNode(G, words[n], <<>>), words, n + 1)

\* build_cooccurrence_graph that makes a node of every token before it adds
\* the edges
CooccurrenceGraphOfAllTokens(G, text, window_size, min_frequency, lowercase) ==
    AddCountedEdges(AddTokenNodes(GraphClear(G), tokenize_words(text, lowercase), 1),
                    co_occurrence(tokenize_words(text, lowercase), window_size),
                    min_frequency, 1)

\* the graph build_cooccurrence_graph leaves in a store holding G
CooccurrenceGraph(G, text, window_size, min_frequency, lowercase) ==
    AddCountedEdges(GraphClear(G),
                    co_occurrence(tokenize_words(text, lowercase), window_size),
                    min_frequency, 1)

(***************************************************************************)
(* build_sentence_graph                                                    *)
(***************************************************************************)
LabelMax == 50

\* sent[:50] + ('...' if len(sent) > 50 else '')
SentenceLabel(sent) ==
    IF CharLen(sent) > LabelMax THEN [cut |-> LabelMax, of |-> sent] ELSE sent

\* the identifier of sentence number i (a Python int, written as its digits)
SentenceId(i) == ToString(i)

\* sentence_words: (i, label, words) for each sentence, i 0-based
SentenceWords(sentences) ==
    [n \in DOMAIN sentences |->
        [i |-> n - 1, label |-> SentenceLabel(sentences[n]),
         words |-> Range(tokenize_words(sentences[n], TRUE))]]

RECURSIVE AddSentenceNodes(_, _, _)
AddSentenceNodes(G, sw, n) ==
    IF n > Len(sw) THEN G
    ELSE AddSentenceNodes(
            GraphAddNode(G, SentenceId(sw[n].i),
                         [label |-> sw[n].label, word_count |-> Cardinality(sw[n].words)]),
            sw, n + 1)

RECURSIVE AddSentenceEdgesFromSelf(_, _, _, _, _)
\* the loops over sentence_words and over sentence_words[i:]
AddSentenceEdgesFromSelf(G, sw, min_common_words, n, m) ==
    IF n > Len(sw) THEN G
    ELSE IF m > Len(sw)
         THEN AddSentenceEdgesFromSelf(G, sw, min_common_words, n + 1, n + 1)
    ELSE LET common == sw[n].words \cap sw[m].words
             G1 == IF Cardinality(common) >= min_common_words
                   THEN GraphAddEdge(G, SentenceId(sw[n].i), SentenceId(sw[m].i),
                            [weight |-> Frac(Cardinality(common),
                                             Max(Cardinality(sw[n].words),
                                                 Cardinality(sw[m].words))),
                             common_words |-> Cardinality(common)])
                   ELSE G
         IN  AddSentenceEdgesFromSelf(G1, sw, min_common_words, n, m + 1)

RECURSIVE AddSentenceEdges(_, _, _, _, _)
\* the loops over sentence_words and over sentence_words[i+1:]
AddSentenceEdges(G, sw, min_common_words, n, m) ==
    IF n > Len(sw) THEN G
    ELSE IF m > Len(sw) THEN AddSentenceEdges(G, sw, min_common_words, n + 1, n + 2)
    ELSE LET common == sw[n].words \cap sw[m].words
             G1 == IF Cardinality(common) >= min_common_words
                   THEN GraphAddEdge(G, SentenceId(sw[n].i), SentenceId(sw[m].i),
                            [weight |-> Frac(Cardinality(common),
                                             Max(Cardinality(sw[n].words),
                                                 Cardinality(sw[m].words))),
                             common_words |-> Cardinality(common)])
                   ELSE G
         IN  AddSentenceEdges(G1, sw, min_common_words, n, m + 1)

\* the graph build_sentence_graph leaves in a store holding G
SentenceGraph(G, text, min_common_words) ==
    LET sw == SentenceWords(segment_sentences(text))
    IN  AddSentenceEdges(AddSentenceNodes(GraphClear(G), sw, 1),
                         sw, min_common_words, 1, 2)

(***************************************************************************)
(* networkx algorithms the analyzers call                                  *)
(***************************************************************************)
\* the first node of S in node insertion order
FirstInOrder(G, S) ==
    G.order[CHOOSE i \in DOMAIN G.order :
                /\ G.order[i] \in S
                /\ \A j \in 1..(i - 1) : G.order[j] \notin S]

RECURSIVE BfsLevels(_, _, _)
\* breadth-first search: levels[k+1] holds the nodes k hops from the source
BfsLevels(G, levels, seen) ==
    LET frontier == levels[Len(levels)]
        found == (UNION {Neighbors(G, n) : n \in frontier}) \ seen
    IN  IF found = {} THEN levels
        ELSE BfsLevels(G, Append(levels, found), seen \cup found)

Levels(G, source) == BfsLevels(G, <<{source}>>, {source})

RECURSIVE PathBack(_, _, _, _)
\* the path from the source to node, which lies in levels[k]; among several
\* predecessors the search order of the library decides, modelled here by
\* node insertion order
PathBack(G, levels, k, node) ==
    IF k = 1 THEN <<node>>
    ELSE LET preds == {p \in levels[k - 1] : {p, node} \in EdgeSet(G)}
         IN  Append(PathBack(G, levels, k - 1, FirstInOrder(G, preds)), node)

\* nx.shortest_path(G, source, target) with no weight: [exc, val]
nx_shortest_path(G, source, target) ==
    IF ~HasNode(G, source) \/ ~HasNode(G, target)
    THEN [exc |-> "NodeNotFound", val |-> <<>>]
    ELSE LET levels == Levels(G, source)
             at == {k \in DOMAIN levels : target \in levels[k]}
         IN  IF at = {}
             THEN [exc |-> "NetworkXNoPath", val |-> <<>>]
             ELSE [exc |-> "none",
                   val |-> PathBack(G, levels, CHOOSE k \in at : TRUE, target)]

\* G.number_of_edges(): a self-loop counts once
NumberOfEdges(G) == Cardinality(EdgeSet(G))

\* G.degree(n): a self-loop counts twice
Degree(G, n) ==
    Cardinality({e \in EdgeSet(G) : n \in e}) + (IF {n} \in EdgeSet(G) THEN 1 ELSE 0)

\* nx.density(G)
nx_density(G) ==
    LET n == Len(G.order)
        m == NumberOfEdges(G)
    IN  IF m = 0 \/ n <= 1 THEN <<0, 1>> ELSE Frac(2 * m, n * (n - 1))

\* the connected component of node n
Component(G, n) == UNION Range(Levels(G, n))

\* nx.number_connected_components(G)
nx_number_connected_components(G) ==
    Cardinality({Component(G, n) : n \in NodeSet(G)})

\* hop distance from s to t, which share a component
HopDistance(G, s, t) ==
    (CHOOSE k \in DOMAIN Levels(G, s) : t \in Levels(G, s)[k]) - 1

\* the smallest eccentricity of a connected graph
nx_radius(G) ==
    CHOOSE d \in 0..Len(G.order) :
        /\ \A n \in NodeSet(G) : Len(Levels(G, n)) - 1 >= d
        /\ \E n \in NodeSet(G) : Len(Levels(G, n)) - 1 = d

\* nx.diameter(G) of a connected graph: the largest eccentricity
nx_diameter(G) ==
    CHOOSE d \in 0..Len(G.order) :
        /\ \A n \in NodeSet(G) : Len(Levels(G, n)) - 1 <= d
        /\ \E n \in NodeSet(G) : Len(Levels(G, n)) - 1 = d

RECURSIVE SumOver(_, _)
\* sum of f over the set S
SumOver(f, S) ==
    IF S = {} THEN 0
    ELSE LET x == CHOOSE y \in S : TRUE IN f[x] + SumOver(f, S \ {x})

RECURSIVE FracSumOver(_, _)
FracSumOver(f, S) ==
    IF S = {} THEN <<0, 1>>
    ELSE LET x == CHOOSE y \in S : TRUE IN FracAdd(f[x], FracSumOver(f, S \ {x}))

\* nx.average_shortest_path_length(G) of a connected graph
nx_average_shortest_path_length(G) ==
    LET n == Len(G.order)
        pairs == NodeSet(G) \X NodeSet(G)
        total == SumOver([p \in pairs |-> HopDistance(G, p[1], p[2])], pairs)
    IN  IF n = 1 THEN <<0, 1>> ELSE Frac(total, n * (n - 1))

\* nx.clustering(G, v): self-loops are left out
nx_clustering(G, v) ==
    LET vs == Neighbors(G, v) \ {v}
        d == Cardinality(vs)
        t == SumOver([w \in vs |-> Cardinality(vs \cap (Neighbors(G, w) \ {w}))], vs)
    IN  IF t = 0 THEN <<0, 1>> ELSE Frac(t, d * (d - 1))

\* nx.average_clustering(G)
nx_average_clustering(G) ==
    LET total == FracSumOver([v \in NodeSet(G) |-> nx_clustering(G, v)], NodeSet(G))
    IN  Frac(total[1], total[2] * Len(G.order))

\* nx.degree_centrality(G): node -> score
nx_degree_centrality(G) ==
    IF Len(G.order) <= 1 THEN [n \in NodeSet(G) |-> <<1, 1>>]
    ELSE [n \in NodeSet(G) |-> Frac(Degree(G, n), Len(G.order) - 1)]

RECURSIVE InsertBeforeEqual(_, _)
\* item goes before the entries whose score equals its own
InsertBeforeEqual(sorted, item) ==
    IF sorted = <<>> THEN <<item>>
    ELSE IF FracLeq(item[2], Head(sorted)[2]) /\ item[2] # Head(sorted)[2]
         THEN <<Head(sorted)>> \o InsertBeforeEqual(Tail(sorted), item)
         ELSE <<item>> \o sorted

RECURSIVE InsertDescending(_, _)
\* item goes after every entry whose score is at least its own
InsertDescending(sorted, item) ==
    IF sorted = <<>> THEN <<item>>
    ELSE IF FracLeq(item[2], Head(sorted)[2])
         THEN <<Head(sorted)>> \o InsertDescending(Tail(sorted), item)
         ELSE <<item>> \o sorted

RECURSIVE SortDescending(_, _)
\* sorted(items, key=lambda x: x[1], reverse=True): stable
SortDescending(items, sorted) ==
    IF items = <<>> THEN sorted
    ELSE SortDescending(Tail(items), InsertDescending(sorted, Head(items)))

\* the nodes that have an edge, one community each
SingletonsOfEdges(G) == {{n} : n \in UNION EdgeSet(G)}

\* communities = {n: frozenset([n]) for n in G}
Singletons(G) == {{n} : n \in NodeSet(G)}

\* the number of edges with one endpoint in A and the other in B, for
\* disjoint A and B
EdgesBetween(G, A, B) ==
    Cardinality({e \in EdgeSet(G) : e \cap A # {} /\ e \cap B # {}})

\* the change of modularity when the communities A and B are merged:
\* E(A, B) / m - 2 * a[A] * a[B], where m = G.size() and a[X] is the sum of
\* the degrees of X over 2m
ModularityGain(G, A, B) ==
    LET m == NumberOfEdges(G)
        dA == SumOver([n \in A |-> Degree(G, n)], A)
        dB == SumOver([n \in B |-> Degree(G, n)], B)
    IN  Frac(2 * m * EdgesBetween(G, A, B) - dA * dB, 2 * m * m)

\* the merge loop left before its first round
NoMerges(G, P) == {P}

RECURSIVE GreedyMerges(_, _)
\* the merge loop of greedy_modularity_communities from the partition P:
\* the pair of adjacent communities with the largest gain is merged until
\* no two communities are adjacent or the largest gain is negative.  Among
\* pairs of equal gain the heap order of the library decides, so the value
\* is the set of the partitions the loop can end with.
GreedyMerges(G, P) ==
    LET adjacent == {pr \in SUBSET P :
                        /\ Cardinality(pr) = 2
                        /\ \E A \in pr, B \in pr :
                               A # B /\ EdgesBetween(G, A, B) > 0}
        one(pr) == CHOOSE A \in pr : TRUE
        other(pr) == CHOOSE B \in pr : B # one(pr)
        dq == [pr \in adjacent |-> ModularityGain(G, one(pr), other(pr))]
        best == {pr \in adjacent : \A q \in adjacent : FracLeq(dq[q], dq[pr])}
    IN  IF adjacent = {} THEN {P}
        ELSE IF \E pr \in best : dq[pr][1] < 0 THEN {P}
        ELSE UNION {GreedyMerges(G, (P \ pr) \cup {UNION pr}) : pr \in best}

\* nx.community.greedy_modularity_communities(G): the lists it can return,
\* each as the bag of its entries (the order of the list is that of a
\* dictionary of the merge loop, which is not modelled).  A graph without
\* edges gives one community per node.
nx_greedy_modularity_communities(G) ==
    IF NumberOfEdges(G) = 0 THEN {SetToBag(Singletons(G))}
    ELSE {SetToBag(P) : P \in GreedyMerges(G, Singletons(G))}

(***************************************************************************)
(* SemanticGraph: the analyzers as functions of the graph: [exc, val]      *)
(***************************************************************************)
\* No path
None == [none |-> TRUE, path |-> <<>>]

\* find_shortest_path with the endpoints handed over in the wrong order
FindShortestPathSwapped(G, concept1, concept2) ==
    LET r == nx_shortest_path(G, concept2, concept1)
    IN  IF r.exc \in {"NetworkXNoPath", "NodeNotFound"}
        THEN [exc |-> "none", val |-> None]
        ELSE [exc |-> r.exc, val |-> [none |-> FALSE, path |-> r.val]]

\* find_shortest_path with an except clause for NetworkXNoPath alone
FindShortestPathNoPathOnly(G, concept1, concept2) ==
    LET r == nx_shortest_path(G, concept1, concept2)
    IN  IF r.exc \in {"NetworkXNoPath"}
        THEN [exc |-> "none", val |-> None]
        ELSE [exc |-> r.exc, val |-> [none |-> FALSE, path |-> r.val]]

FindShortestPath(G, concept1, concept2) ==
    LET r == nx_shortest_path(G, concept1, concept2)
    IN  IF r.exc \in {"NetworkXNoPath", "NodeNotFound"}
        THEN [exc |-> "none", val |-> None]
        ELSE [exc |-> r.exc, val |-> [none |-> FALSE, path |-> r.val]]

RECURSIVE ExpandLastLevel(_, _, _, _)
\* the loop of get_neighborhood keeping the last level only
ExpandLastLevel(G, neighborhood, current_level, rounds) ==
    IF rounds <= 0 THEN neighborhood
    ELSE LET next_level == UNION {Neighbors(G, node) : node \in current_level}
         IN  ExpandLastLevel(G, next_level, next_level, rounds - 1)

RECURSIVE ExpandNeighborhood(_, _, _, _)
\* the loop "for _ in range(radius)" of get_neighborhood
ExpandNeighborhood(G, neighborhood, current_level, rounds) ==
    IF rounds <= 0 THEN neighborhood
    ELSE LET next_level == UNION {Neighbors(G, node) : node \in current_level}
         IN  ExpandNeighborhood(G, neighborhood \cup next_level, next_level, rounds - 1)

\* get_neighborhood without the test "concept not in self.graph"
GetNeighborhoodUnguarded(G, concept, radius) ==
    ExpandNeighborhood(G, {concept}, {concept}, radius)

\* get_neighborhood with one round too many
GetNeighborhoodOneMore(G, concept, radius) ==
    IF ~HasNode(G, concept) THEN {}
    ELSE ExpandNeighborhood(G, {concept}, {concept}, radius + 1)

GetNeighborhood(G, concept, radius) ==
    IF ~HasNode(G, concept) THEN {}
    ELSE ExpandNeighborhood(G, {concept}, {concept}, radius)

\* get_graph_statistics without the early return for the empty graph
GetGraphStatisticsUnguarded(G) ==
    LET stats == [nodes |-> Len(G.order),
                  edges |-> NumberOfEdges(G),
                  density |-> nx_density(G),
                  connected_components |-> nx_number_connected_components(G)]
        stats1 == ("avg_clustering" :> nx_average_clustering(G)) @@ stats
    IN  IF stats.connected_components = 1
        THEN ("diameter" :> nx_diameter(G))
               @@ ("avg_shortest_path" :> nx_average_shortest_path_length(G))
               @@ stats1
        ELSE stats1

GetGraphStatistics(G) ==
    IF Len(G.order) = 0
    THEN [nodes |-> 0, edges |-> 0, density |-> <<0, 1>>, connected_components |-> 0]
    ELSE LET stats == [nodes |-> Len(G.order),
                       edges |-> NumberOfEdges(G),
                       density |-> nx_density(G),
                       connected_components |-> nx_number_connected_components(G)]
             stats1 == IF stats.nodes > 0
                       THEN ("avg_clustering" :> nx_average_clustering(G)) @@ stats
                       ELSE stats
         IN  IF stats.connected_components = 1
             THEN ("diameter" :> nx_diameter(G))
                    @@ ("avg_shortest_path" :> nx_average_shortest_path_length(G))
                    @@ stats1
             ELSE stats1

\* the endpoint of edge e that comes first in node order: G.edges yields
\* each edge from the endpoint that the node dictionary reaches first
EdgeSource(G, e) == FirstInOrder(G, e)

EdgeTarget(G, e) == IF Cardinality(e) = 1 THEN EdgeSource(G, e)
                    ELSE CHOOSE v \in e : v # EdgeSource(G, e)

\* node_data = {'id': node[0]}; node_data.update(node[1])
NodeEntry(G, n) == DictUpdate([id |-> n], G.nattr[n])

\* edge_data = {'source': edge[0], 'target': edge[1]}; edge_data.update(edge[2])
EdgeEntry(G, e) ==
    DictUpdate([source |-> EdgeSource(G, e), target |-> EdgeTarget(G, e)], G.eattr[e])

\* the list of edge entries with the self-loops left out
EdgeEntriesNoLoops(G) ==
    LET entries == {EdgeEntry(G, e) : e \in {f \in EdgeSet(G) : Cardinality(f) = 2}}
    IN  [x \in entries |-> Cardinality({e \in EdgeSet(G) : EdgeEntry(G, e) = x})]

\* the list "edges" of export_graph_data as the bag of its entries: within
\* one source the order is that of the adjacency dictionary, which is not
\* modelled
EdgeEntries(G) ==
    LET entries == {EdgeEntry(G, e) : e \in EdgeSet(G)}
    IN  [x \in entries |-> Cardinality({e \in EdgeSet(G) : EdgeEntry(G, e) = x})]

ExportGraphData(G) ==
    [nodes |-> [i \in DOMAIN G.order |-> NodeEntry(G, G.order[i])],
     edges |-> EdgeEntries(G),
     statistics |-> GetGraphStatistics(G)]

\* find_communities: the lists it can return, as bags of sets
FindCommunities(G) ==
    IF Len(G.order) = 0 THEN {EmptyBag}
    ELSE nx_greedy_modularity_communities(G)

\* get_central_concepts with no except clause around eigenvector_centrality
GetCentralConceptsNoFallback(G, top_n, centrality_type, converges) ==
    IF Len(G.order) = 0 THEN [exc |-> "none", val |-> <<>>]
    ELSE IF centrality_type = "degree"
    THEN LET centrality == nx_degree_centrality(G)
             items == [i \in DOMAIN G.order |-> <<G.order[i], centrality[G.order[i]]>>]
             sorted_concepts == SortDescending(items, <<>>)
         IN  [exc |-> "none", val |-> PySlice(sorted_concepts, 0, top_n)]
    ELSE IF centrality_type = "eigenvector" /\ ~converges
    THEN [exc |-> "PowerIterationFailedConvergence", val |-> <<>>]
    ELSE IF centrality_type \in {"betweenness", "closeness", "eigenvector"}
    THEN [exc |-> "unmodelled", val |-> <<>>]
    ELSE [exc |-> "ValueError", val |-> <<>>]

\* converges tells whether nx.eigenvector_centrality(G, max_iter=1000) ends
\* within its iteration budget or raises PowerIterationFailedConvergence:
\* the power iteration itself is not modelled, its outcome is an input.
\* The scores of betweenness, closeness and converged eigenvector
\* centrality are not modelled either: a call that needs them shows as such.
GetCentralConcepts(G, top_n, centrality_type, converges) ==
    IF Len(G.order) = 0 THEN [exc |-> "none", val |-> <<>>]
    ELSE IF centrality_type = "degree" \/ (centrality_type = "eigenvector" /\ ~converges)
    THEN LET centrality == nx_degree_centrality(G)
             items == [i \in DOMAIN G.order |-> <<G.order[i], centrality[G.order[i]]>>]
             sorted_concepts == SortDescending(items, <<>>)
         IN  [exc |-> "none", val |-> PySlice(sorted_concepts, 0, top_n)]
    ELSE IF centrality_type \in {"betweenness", "closeness", "eigenvector"}
    THEN [exc |-> "unmodelled", val |-> <<>>]
    ELSE [exc |-> "ValueError", val |-> <<>>]

(***************************************************************************)
(* SemanticGraph: the mutators                                             *)
(***************************************************************************)
Init ==
    /\ graph = EmptyGraph
    /\ ptext = <<>>
    /\ psent = NoSentences
    /\ call = [op |-> "init"]
    /\ ret = "None"
    /\ exc = "none"
    /\ pre = EmptyGraph

add_concept_node(concept, attributes) ==
    /\ graph' = GraphAddNode(graph, concept, attributes)
    /\ call' = [op |-> "add_concept_node", concept |-> concept,
                attributes |-> attributes]
    /\ ret' = "None"
    /\ exc' = "none"
    /\ UNCHANGED <<ptext, psent>>

\* a keyword named relationship among **attributes meets the keyword the
\* method passes itself: the call of add_edge raises TypeError
add_relationship(concept1, concept2, relationship_type, weight, attributes) ==
    /\ call' = [op |-> "add_relationship", concept1 |-> concept1,
                concept2 |-> concept2, relationship_type |-> relationship_type,
                weight |-> weight, attributes |-> attributes]
    /\ ret' = "None"
    /\ IF "relationship" \in DOMAIN attributes
       THEN /\ exc' = "TypeError"
            /\ graph' = graph
       ELSE /\ exc' = "none"
            /\ graph' = GraphAddEdge(graph, concept1, concept2,
                            DictUpdate([relationship |-> relationship_type,
                                        weight |-> Frac(weight, 1)], attributes))
    /\ UNCHANGED <<ptext, psent>>

clear ==
    /\ graph' = GraphClear(graph)
    /\ call' = [op |-> "clear"]
    /\ ret' = "None"
    /\ exc' = "none"
    /\ UNCHANGED <<ptext, psent>>

build_cooccurrence_graph(text, window_size, min_frequency, lowercase) ==
    /\ graph' = CooccurrenceGraph(graph, text, window_size, min_frequency, lowercase)
    /\ ptext' = load_text(text)[1]
    /\ psent' = load_text(text)[2]
    /\ call' = [op |-> "build_cooccurrence_graph", text |-> text,
                window_size |-> window_size, min_frequency |-> min_frequency,
                lowercase |-> lowercase]
    /\ ret' = "None"
    /\ exc' = "none"

build_sentence_graph(text, min_common_words) ==
    /\ graph' = SentenceGraph(graph, text, min_common_words)
    /\ ptext' = load_text(text)[1]
    /\ psent' = load_text(text)[2]
    /\ call' = [op |-> "build_sentence_graph", text |-> text,
                min_common_words |-> min_common_words]
    /\ ret' = "None"
    /\ exc' = "none"

find_shortest_path(concept1, concept2) ==
    /\ call' = [op |-> "find_shortest_path", concept1 |-> concept1,
                concept2 |-> concept2]
    /\ ret' = FindShortestPath(graph, concept1, concept2).val
    /\ exc' = FindShortestPath(graph, concept1, concept2).exc
    /\ UNCHANGED <<graph, ptext, psent>>

get_neighborhood(concept, radius) ==
    /\ call' = [op |-> "get_neighborhood", concept |-> concept, radius |-> radius]
    /\ ret' = GetNeighborhood(graph, concept, radius)
    /\ exc' = "none"
    /\ UNCHANGED <<graph, ptext, psent>>

get_graph_statistics ==
    /\ call' = [op |-> "get_graph_statistics"]
    /\ ret' = GetGraphStatistics(graph)
    /\ exc' = "none"
    /\ UNCHANGED <<graph, ptext, psent>>

get_central_concepts(top_n, centrality_type, converges) ==
    /\ call' = [op |-> "get_central_concepts", top_n |-> top_n,
                centrality_type |-> centrality_type, converges |-> converges]
    /\ ret' = GetCentralConcepts(graph, top_n, centrality_type, converges).val
    /\ exc' = GetCentralConcepts(graph, top_n, centrality_type, converges).exc
    /\ UNCHANGED <<graph, ptext, psent>>

\* export_graph_data writing the identifier into the attribute dictionary
\* of the node itself
export_graph_data_in_place ==
    /\ call' = [op |-> "export_graph_data"]
    /\ ret' = ExportGraphData(graph)
    /\ exc' = "none"
    /\ graph' = [graph EXCEPT !.nattr =
                    [n \in NodeSet(graph) |-> NodeEntry(graph, n)]]
    /\ UNCHANGED <<ptext, psent>>

export_graph_data ==
    /\ call' = [op |-> "export_graph_data"]
    /\ ret' = ExportGraphData(graph)
    /\ exc' = "none"
    /\ UNCHANGED <<graph, ptext, psent>>

find_communities ==
    /\ call' = [op |-> "find_communities"]
    /\ ret' \in FindCommunities(graph)
    /\ exc' = "none"
    /\ UNCHANGED <<graph, ptext, psent>>

(***************************************************************************)
(* TextParser called on its own: the methods on the parser state           *)
(***************************************************************************)
TextParser_load_text(text) ==
    /\ ptext' = load_text(text)[1]
    /\ psent' = load_text(text)[2]
    /\ call' = [op |-> "load_text", text |-> text]
    /\ ret' = "None"
    /\ exc' = "none"
    /\ UNCHANGED graph

\* the segmentation is computed when _sentences is None and kept
TextParser_segment_sentences ==
    /\ psent' = IF psent.cached THEN psent
                ELSE [cached |-> TRUE, val |-> segment_sentences(ptext)]
    /\ ret' = psent'.val
    /\ call' = [op |-> "segment_sentences"]
    /\ exc' = "none"
    /\ UNCHANGED <<graph, ptext>>

TextParser_tokenize_words(lowercase) ==
    /\ ret' = tokenize_words(ptext, lowercase)
    /\ call' = [op |-> "tokenize_words", lowercase |-> lowercase]
    /\ exc' = "none"
    /\ UNCHANGED <<graph, ptext, psent>>

(***************************************************************************)
(* The calls a client makes, with their arguments drawn from small sets.   *)
(***************************************************************************)
Texts(n) == UNION {[1..k -> Lexicon] : k \in 0..n}

WindowSizes == {-1, 0, 2, 3}

MinFrequencies == {0, 1, 2}

MinCommonWords == {1, 2}

\* identifiers of the path and neighbourhood runs
QueryConcepts == {"a", "b", "c", "d"}

\* the pairs add_relationship joins in the path and neighbourhood runs
QueryPairs == {p \in QueryConcepts \X QueryConcepts : p[1] # p[2]}

\* centrality_type values: the default, eigenvector, and one the code has
\* no branch for
CentralityTypes == {"degree", "eigenvector", "pagerank"}

TopNs == {0, 1, 10}

AddConceptNode(CS, AS) == \E c \in CS, at \in AS : add_concept_node(c, at)

AddRelationship(PS, WS) ==
    \E p \in PS, rt \in RelTypes, w \in WS :
        add_relationship(p[1], p[2], rt, w, <<>>)

\* add_relationship with a relationship type and keyword attributes
AddRelationshipWith(PS, TS, WS, AS) ==
    \E p \in PS, rt \in TS, w \in WS, at \in AS :
        add_relationship(p[1], p[2], rt, w, at)

Clear == clear

BuildCooccurrenceGraph(TS, WS, MS, LS) ==
    \E text \in TS, w \in WS, m \in MS, lc \in LS :
        build_cooccurrence_graph(text, w, m, lc)

BuildSentenceGraph(TS) ==
    \E text \in TS, m \in MinCommonWords : build_sentence_graph(text, m)

FindShortestPathCall(CS) ==
    \E c1 \in CS \cup {Absent}, c2 \in CS \cup {Absent} : find_shortest_path(c1, c2)

GetNeighborhoodCall(CS) ==
    \E c \in CS \cup {Absent}, r \in 0..MaxRadius : get_neighborhood(c, r)

\* the power iteration can fail only where it runs: with type eigenvector
\* on a graph that has a node
GetCentralConceptsCall ==
    \E n \in TopNs, t \in CentralityTypes :
        \E converges \in (IF t = "eigenvector" /\ Len(graph.order) > 0
                           THEN BOOLEAN ELSE {TRUE}) :
            get_central_concepts(n, t, converges)

\* a call that leaves the history variable alone
Untracked(A) == A /\ UNCHANGED pre

\* a call that records the graph it found
Tracked(A) == A /\ pre' = graph

\* the builders on a store that is otherwise only cleared; the history
\* variable is not kept in these runs
NextBuild ==
    \/ Untracked(BuildCooccurrenceGraph(Texts(MaxTokens), WindowSizes, MinFrequencies, {TRUE}))
    \/ Untracked(BuildSentenceGraph(Texts(MaxTokens)))
    \/ Untracked(Clear)

SpecBuild == Init /\ [][NextBuild]_vars

\* a store edited by hand and queried for paths and neighbourhoods
NextQuery ==
    \/ Tracked(AddConceptNode(QueryConcepts, {<<>>}))
    \/ Tracked(AddRelationship(QueryPairs, {1}))
    \/ Tracked(Clear)
    \/ Tracked(FindShortestPathCall(QueryConcepts))
    \/ Tracked(GetNeighborhoodCall(QueryConcepts))

SpecQuery == Init /\ [][NextQuery]_vars

\* every mutator, on small inputs, with every query
Next ==
    \/ Tracked(AddConceptNode(Concepts, {<<>>}))
    \/ Tracked(AddRelationship(Concepts \X Concepts, {1}))
    \/ Tracked(BuildCooccurrenceGraph(Texts(MaxPriorTokens), {2}, {1}, BOOLEAN))
    \/ Tracked(BuildSentenceGraph(Texts(MaxPriorTokens)))
    \/ Tracked(Clear)
    \/ Tracked(FindShortestPathCall(Concepts))
    \/ Tracked(GetNeighborhoodCall(Concepts))
    \/ Tracked(get_graph_statistics)
    \/ Tracked(GetCentralConceptsCall)
    \/ Tracked(find_communities)
    \/ Tracked(export_graph_data)

Spec == Init /\ [][Next]_vars

\* the pairs add_relationship joins in the runs of the analyzers: every
\* pair of distinct concepts, and a with itself
AnalyzePairs == QueryPairs \cup {<<"a", "a">>}

\* a store edited by hand and handed to the analyzers; the history variable
\* is not kept in these runs
NextAnalyze ==
    \/ Untracked(AddConceptNode(QueryConcepts, {<<>>}))
    \/ Untracked(AddRelationship(AnalyzePairs, {1}))
    \/ Untracked(Clear)
    \/ Untracked(get_graph_statistics)
    \/ Untracked(GetCentralConceptsCall)
    \/ Untracked(find_communities)

SpecAnalyze == Init /\ [][NextAnalyze]_vars

\* keyword attributes of add_concept_node in the runs of the exporter: none,
\* the one of test_add_concept_node with two values, and one named like the
\* key of the identifier in a node entry
ExportNodeAttrs == {<<>>, [type |-> "t"], [type |-> "u"], [id |-> "t"]}

\* keyword attributes of add_relationship in those runs: none, a free one,
\* one named like a key of an edge entry, and one named like the keyword
\* add_relationship passes itself
ExportEdgeAttrs == {<<>>, [note |-> "n"], [source |-> "t"], [relationship |-> "r"]}

\* relationship_type values in those runs: the default and the one of
\* test_add_relationship
ExportRelTypes == {"related", "is_a"}

\* the pairs add_relationship joins in those runs: one pair, both ways round
ExportPairs == {<<"a", "x">>, <<"x", "a">>}

\* a store of attributed nodes and edges, edited by hand and exported
NextAttr ==
    \/ Tracked(AddConceptNode(Concepts, ExportNodeAttrs))
    \/ Tracked(AddRelationshipWith(ExportPairs, ExportRelTypes, Weights, ExportEdgeAttrs))
    \/ Tracked(Clear)
    \/ Tracked(export_graph_data)

SpecAttr == Init /\ [][NextAttr]_vars

\* a TextParser loaded, segmented and tokenized in any order
NextParser ==
    \/ Untracked(\E text \in Texts(MaxTokens) : TextParser_load_text(text))
    \/ Untracked(TextParser_segment_sentences)
    \/ Untracked(\E lc \in BOOLEAN : TextParser_tokenize_words(lc))

SpecParser == Init /\ [][NextParser]_vars

\* identifiers of the runs of community detection
CommunityConcepts == {"a", "b", "c", "d", "e", "f"}

\* the pairs add_relationship joins in those runs: the sides of the
\* triangles a b c and d e f, and the bridge c - d
CommunityPairs ==
    {<<"a", "b">>, <<"b", "c">>, <<"a", "c">>,
     <<"d", "e">>, <<"e", "f">>, <<"d", "f">>, <<"c", "d">>}

\* clusters joined by hand and handed to find_communities
NextCommunity ==
    \/ Untracked(AddRelationship(CommunityPairs, {1}))
    \/ Untracked(Clear)
    \/ Untracked(find_communities)

SpecCommunity == Init /\ [][NextCommunity]_vars

(***************************************************************************)
(* Paths and distances stated without the search: a walk is any sequence   *)
(* of nodes in which consecutive nodes are joined by an edge.              *)
(***************************************************************************)
\* the walks of G with at most n nodes
Walks(G, n) ==
    {w \in UNION {[1..k -> NodeSet(G)] : k \in 1..n} :
        \A i \in 1..(Len(w) - 1) : {w[i], w[i + 1]} \in EdgeSet(G)}

\* the walks from s to t; one with the fewest nodes visits no node twice,
\* so walks of at most |nodes| nodes decide reachability and distance
WalksBetween(G, s, t) ==
    {w \in Walks(G, Len(G.order)) : w[1] = s /\ w[Len(w)] = t}

\* the nodes at most r hops from s
WithinHops(G, s, r) ==
    {w[Len(w)] : w \in {v \in Walks(G, Min(r + 1, Len(G.order))) : v[1] = s}}

(***************************************************************************)
(* C1: whenever find_shortest_path(s, t) is called on two nodes joined by  *)
(* some path, it returns a sequence that starts at s, ends at t, steps     *)
(* only along edges and has the fewest hops of all s-t paths; for s = t it *)
(* returns [s].                                                            *)
(***************************************************************************)
C1_ShortestPath ==
    (/\ call.op = "find_shortest_path"
     /\ HasNode(graph, call.concept1)
     /\ HasNode(graph, call.concept2)
     /\ WalksBetween(graph, call.concept1, call.concept2) # {})
    => /\ exc = "none"
       /\ ~ret.none
       /\ ret.path \in WalksBetween(graph, call.concept1, call.concept2)
       /\ \A w \in WalksBetween(graph, call.concept1, call.concept2) :
              Len(ret.path) <= Len(w)
       /\ (call.concept1 = call.concept2 => ret.path = <<call.concept1>>)

\* a two-hop path was returned although a three-hop path joins the same nodes
C1_Witness ==
    /\ call.op = "find_shortest_path"
    /\ exc = "none"
    /\ ~ret.none
    /\ Len(ret.path) = 3
    /\ \E w \in WalksBetween(graph, call.concept1, call.concept2) :
           Len(w) = 4 /\ Cardinality(Range(w)) = 4

(***************************************************************************)
(* C2: find_shortest_path never raises; when no path joins the two nodes,  *)
(* or when either identifier is not a node, it returns None.               *)
(***************************************************************************)
C2_NoPathIsNone ==
    call.op = "find_shortest_path"
    => /\ exc = "none"
       /\ (\/ ~HasNode(graph, call.concept1)
           \/ ~HasNode(graph, call.concept2)
           \/ WalksBetween(graph, call.concept1, call.concept2) = {})
          => ret = None

\* the query named a node with an edge and an identifier that is no node
C2_Witness ==
    /\ call.op = "find_shortest_path"
    /\ HasNode(graph, call.concept1)
    /\ Neighbors(graph, call.concept1) # {}
    /\ ~HasNode(graph, call.concept2)
    /\ ret = None

(***************************************************************************)
(* C3: after build_cooccurrence_graph the graph has no edge whose two      *)
(* endpoints are the same node.                                            *)
(***************************************************************************)
C3_NoSelfLoopAfterBuild ==
    call.op = "build_cooccurrence_graph"
    => \A e \in EdgeSet(graph) : Cardinality(e) = 2

(***************************************************************************)
(* C4: add_relationship(x, x, ...) fails with an invalid-edge error and    *)
(* leaves the graph as it was.                                             *)
(***************************************************************************)
C4_SelfEdgeRejected ==
    (call.op = "add_relationship" /\ call.concept1 = call.concept2)
    => (exc = "InvalidEdgeError" /\ graph = pre)

(***************************************************************************)
(* The co-occurrence count stated without the scan: the 0-based positions  *)
(* of the window at i, and the number of (window, position pair) triples   *)
(* that hold the tokens a and b in either order.                           *)
(***************************************************************************)
WindowPositions(n, i, window_size) ==
    LET stop == IF i + window_size < 0 THEN Max(n + i + window_size, 0)
                ELSE Min(i + window_size, n)
    IN  {p \in 0..(n - 1) : i <= p /\ p < stop}

PairCount(words, window_size, a, b) ==
    LET n == Len(words)
    IN  Cardinality({t \in (0..(n - 1)) \X (0..(n - 1)) \X (0..(n - 1)) :
            /\ t[2] < t[3]
            /\ {t[2], t[3]} \subseteq WindowPositions(n, t[1], window_size)
            /\ {words[t[2] + 1], words[t[3] + 1]} = {a, b}})

(***************************************************************************)
(* C5: build_cooccurrence_graph makes an edge {a, b} exactly for the token *)
(* pairs that share a window and whose count over all windows, (a, b) and  *)
(* (b, a) counted together, is at least min_frequency; the edge's weight   *)
(* is that count, and it carries nothing else.  For a b a b with window 2  *)
(* and min_frequency 1 the weight of (a, b) is at least 2.                 *)
(***************************************************************************)
C5_EdgesAreCounts ==
    call.op = "build_cooccurrence_graph"
    => LET words == tokenize_words(call.text, call.lowercase)
           count(a, b) == PairCount(words, call.window_size, a, b)
       IN  /\ \A a \in Range(words), b \in Range(words) :
                 /\ HasEdge(graph, a, b)
                       <=> (count(a, b) >= 1 /\ count(a, b) >= call.min_frequency)
                 /\ HasEdge(graph, a, b)
                       => graph.eattr[{a, b}] = [weight |-> <<count(a, b), 1>>]
           /\ \A e \in EdgeSet(graph) : e \subseteq Range(words)
           /\ (words = <<"a", "b", "a", "b">> /\ call.window_size = 2
                 /\ call.min_frequency = 1)
              => (HasEdge(graph, "a", "b") /\ graph.eattr[{"a", "b"}].weight[1] >= 2)

\* the text a b a b, window 2, min_frequency 2: the three pairs, two in the
\* order (a, b) and one in the order (b, a), make one edge of weight 3
C5_Witness ==
    /\ call.op = "build_cooccurrence_graph"
    /\ tokenize_words(call.text, call.lowercase) = <<"a", "b", "a", "b">>
    /\ call.window_size = 2
    /\ call.min_frequency = 2
    /\ EdgeSet(graph) = {{"a", "b"}}
    /\ graph.eattr[{"a", "b"}].weight = <<3, 1>>

(***************************************************************************)
(* C6: after either builder completes, the graph is the one the same call  *)
(* builds in an empty store, and its nodes come from the text of the call: *)
(* nothing the store held before remains.                                  *)
(***************************************************************************)
C6_BuildStartsFresh ==
    /\ call.op = "build_cooccurrence_graph"
       => /\ graph = CooccurrenceGraph(EmptyGraph, call.text, call.window_size,
                                       call.min_frequency, call.lowercase)
          /\ NodeSet(graph) \subseteq Range(tokenize_words(call.text, call.lowercase))
    /\ call.op = "build_sentence_graph"
       => /\ graph = SentenceGraph(EmptyGraph, call.text, call.min_common_words)
          /\ NodeSet(graph) =
                {SentenceId(i - 1) : i \in 1..Len(segment_sentences(call.text))}

\* a build ran on a store that held a node and an edge foreign to its text,
\* and it produced a graph of its own
C6_Witness ==
    /\ call.op = "build_cooccurrence_graph"
    /\ HasEdge(pre, "x", "x")
    /\ HasEdge(pre, "a", "x")
    /\ EdgeSet(graph) # {}
    /\ ~HasNode(graph, "x")

(***************************************************************************)
(* C7: in every state both endpoints of every edge are nodes, every node   *)
(* and only a node has an attribute dictionary, and after add_relationship *)
(* both of its arguments are nodes.                                        *)
(***************************************************************************)
C7_EndpointsAreNodes ==
    /\ \A e \in EdgeSet(graph) : e \subseteq NodeSet(graph)
    /\ DOMAIN graph.nattr = NodeSet(graph)
    /\ Cardinality(NodeSet(graph)) = Len(graph.order)
    /\ call.op = "add_relationship"
       => {call.concept1, call.concept2} \subseteq NodeSet(graph)

\* add_relationship joined two identifiers neither of which was a node
C7_Witness ==
    /\ call.op = "add_relationship"
    /\ call.concept1 # call.concept2
    /\ ~HasNode(pre, call.concept1)
    /\ ~HasNode(pre, call.concept2)
    /\ NodeSet(pre) # {}
    /\ {call.concept1, call.concept2} \subseteq NodeSet(graph)

(***************************************************************************)
(* C8: the density get_graph_statistics reports lies in [0, 1] and is 0    *)
(* when the graph has fewer than 2 nodes.                                  *)
(***************************************************************************)
C8_DensityInUnitInterval ==
    call.op = "get_graph_statistics"
    => /\ FracLeq(<<0, 1>>, ret.density)
       /\ FracLeq(ret.density, <<1, 1>>)
       /\ (ret.nodes < 2 => ret.density = <<0, 1>>)

(***************************************************************************)
(* C9: get_central_concepts with a centrality_type other than degree,      *)
(* betweenness, closeness or eigenvector fails with an invalid-argument    *)
(* error in every graph state.                                             *)
(***************************************************************************)
C9_UnknownTypeRejected ==
    (call.op = "get_central_concepts"
        /\ call.centrality_type \notin {"degree", "betweenness", "closeness", "eigenvector"})
    => exc = "ValueError"

(***************************************************************************)
(* C10: get_neighborhood(concept, r) on a node of the graph returns exactly *)
(* the nodes at most r hops away, the concept included; for r = 0 that is  *)
(* the concept alone.                                                      *)
(***************************************************************************)
C10_Neighborhood ==
    (call.op = "get_neighborhood" /\ HasNode(graph, call.concept))
    => /\ exc = "none"
       /\ ret = WithinHops(graph, call.concept, call.radius)
       /\ call.concept \in ret
       /\ (call.radius = 0 => ret = {call.concept})

\* radius 2 reached a node that radius 1 does not, and left one out
C10_Witness ==
    /\ call.op = "get_neighborhood"
    /\ call.radius = 2
    /\ HasNode(graph, call.concept)
    /\ ret # GetNeighborhood(graph, call.concept, 1)
    /\ ret # Component(graph, call.concept)

(***************************************************************************)
(* C11: on an unchanged graph the neighbourhood grows with the radius:     *)
(* what get_neighborhood(concept, r2) returns contains what                *)
(* get_neighborhood(concept, r1) returns on the same graph, for every      *)
(* r1 <= r2.                                                               *)
(***************************************************************************)
C11_NeighborhoodMonotone ==
    call.op = "get_neighborhood"
    => \A r1 \in 0..call.radius :
           GetNeighborhood(graph, call.concept, r1) \subseteq ret

\* radius 2 returned strictly more than radius 1, which returns strictly
\* more than radius 0, on a graph the call left as it was
C11_Witness ==
    /\ call.op = "get_neighborhood"
    /\ call.radius = 2
    /\ graph = pre
    /\ GetNeighborhood(graph, call.concept, 1) # ret
    /\ GetNeighborhood(graph, call.concept, 1) \subseteq ret
    /\ GetNeighborhood(graph, call.concept, 0) # GetNeighborhood(graph, call.concept, 1)

(***************************************************************************)
(* The ranking stated without the sort: the degree of a node counted from  *)
(* its neighbours, its place in the node dictionary, and the order "m      *)
(* ranks before k".                                                        *)
(***************************************************************************)
NeighborDegree(G, n) ==
    Cardinality(Neighbors(G, n) \ {n}) + (IF n \in Neighbors(G, n) THEN 2 ELSE 0)

PositionOf(G, n) == CHOOSE i \in DOMAIN G.order : G.order[i] = n

DegreeScore(G, n) == Frac(NeighborDegree(G, n), Len(G.order) - 1)

RanksBefore(G, m, k) ==
    \/ ~FracLeq(DegreeScore(G, m), DegreeScore(G, k))
    \/ /\ DegreeScore(G, m) = DegreeScore(G, k)
       /\ PositionOf(G, m) < PositionOf(G, k)

(***************************************************************************)
(* C12: on a graph of n >= 2 nodes, get_central_concepts with type degree  *)
(* and top_n >= 0 returns min(top_n, n) pairs (node, degree / (n - 1)), in *)
(* descending order of score with equal scores in node insertion order:    *)
(* the nodes that rank before an entry are exactly the entries before it.  *)
(* A node of strictly largest degree comes first.                          *)
(***************************************************************************)
C12_DegreeRanking ==
    (/\ call.op = "get_central_concepts"
     /\ call.centrality_type = "degree"
     /\ call.top_n >= 0
     /\ Len(graph.order) >= 2)
    => /\ exc = "none"
       /\ Len(ret) = Min(call.top_n, Len(graph.order))
       /\ \A i \in DOMAIN ret :
              /\ ret[i][1] \in NodeSet(graph)
              /\ ret[i][2] = DegreeScore(graph, ret[i][1])
              /\ \A m \in NodeSet(graph) :
                     RanksBefore(graph, m, ret[i][1])
                        <=> \E j \in 1..(i - 1) : ret[j][1] = m
       /\ \A m \in NodeSet(graph) :
              (/\ call.top_n >= 1
               /\ \A k \in NodeSet(graph) \ {m} :
                      NeighborDegree(graph, k) < NeighborDegree(graph, m))
              => ret[1][1] = m

\* four nodes, the whole ranking asked for: the node of largest degree was
\* inserted last and is returned first, and two nodes of equal score follow
\* in insertion order
C12_Witness ==
    /\ call.op = "get_central_concepts"
    /\ call.centrality_type = "degree"
    /\ call.top_n = 10
    /\ Len(graph.order) = 4
    /\ Len(ret) = 4
    /\ ret[1][1] = graph.order[4]
    /\ ret[1][2] # ret[2][2]
    /\ ret[2][2] = ret[3][2]
    /\ ret[3][2] # ret[4][2]

(***************************************************************************)
(* Components and distances stated with walks: the nodes that some walk of *)
(* the set joins to n, and the fewest hops of its walks from s to t.       *)
(***************************************************************************)
JoinedTo(walks, n) == {w[Len(w)] : w \in {v \in walks : v[1] = n}}

FewestHops(walks, s, t) ==
    LET lengths == {Len(w) - 1 : w \in {v \in walks : v[1] = s /\ v[Len(v)] = t}}
    IN  CHOOSE h \in lengths : \A k \in lengths : h <= k

(***************************************************************************)
(* C13: on a non-empty graph get_graph_statistics reports the number of    *)
(* nodes, of edges and of connected components; diameter and               *)
(* avg_shortest_path are reported exactly when there is one component, and *)
(* the diameter is the largest, over all node pairs, of the fewest hops    *)
(* between them.  For nodes a, b, c with edges a-b and b-c it reports      *)
(* nodes 3, edges 2, connected_components 1, diameter 2.                   *)
(***************************************************************************)
C13_Statistics ==
    (call.op = "get_graph_statistics" /\ NodeSet(graph) # {})
    => LET walks == Walks(graph, Len(graph.order))
           components == {JoinedTo(walks, n) : n \in NodeSet(graph)}
           hops == [p \in NodeSet(graph) \X NodeSet(graph) |->
                       IF p[2] \in JoinedTo(walks, p[1])
                       THEN FewestHops(walks, p[1], p[2]) ELSE -1]
       IN  /\ exc = "none"
           /\ ret.nodes = Cardinality(NodeSet(graph))
           /\ ret.edges = Cardinality(EdgeSet(graph))
           /\ ret.connected_components = Cardinality(components)
           /\ "diameter" \in DOMAIN ret <=> Cardinality(components) = 1
           /\ "avg_shortest_path" \in DOMAIN ret <=> Cardinality(components) = 1
           /\ Cardinality(components) = 1
              => /\ \A p \in DOMAIN hops : hops[p] <= ret.diameter
                 /\ \E p \in DOMAIN hops : hops[p] = ret.diameter
           /\ (NodeSet(graph) = {"a", "b", "c"}
                 /\ EdgeSet(graph) = {{"a", "b"}, {"b", "c"}})
              => /\ ret.nodes = 3
                 /\ ret.edges = 2
                 /\ ret.connected_components = 1
                 /\ ret.diameter = 2

\* the statistics of the path a - b - c
C13_Witness ==
    /\ call.op = "get_graph_statistics"
    /\ NodeSet(graph) = {"a", "b", "c"}
    /\ EdgeSet(graph) = {{"a", "b"}, {"b", "c"}}
    /\ DOMAIN ret = {"nodes", "edges", "density", "connected_components",
                     "avg_clustering", "diameter", "avg_shortest_path"}
    /\ ret.diameter = 2

(***************************************************************************)
(* C14: build_sentence_graph makes exactly one node per segmented          *)
(* sentence, named by the sentence's index and carrying the number of its  *)
(* distinct lower-cased words, and an edge between sentences i < j exactly *)
(* when their word sets share at least min_common_words words; the edge    *)
(* carries weight = |common| / max(|set_i|, |set_j|) and common_words =    *)
(* |common|, and there is no other edge.                                   *)
(***************************************************************************)
C14_SentenceGraph ==
    call.op = "build_sentence_graph"
    => LET sentences == segment_sentences(call.text)
           set(i) == {Lower[LexWord[sentences[i + 1][k]]] :
                         k \in DOMAIN sentences[i + 1]}
           common(i, j) == set(i) \cap set(j)
           indices == 0..(Len(sentences) - 1)
       IN  /\ graph.order = [n \in 1..Len(sentences) |-> SentenceId(n - 1)]
           /\ \A i \in indices :
                  graph.nattr[SentenceId(i)].word_count = Cardinality(set(i))
           /\ \A i \in indices, j \in indices :
                  i < j =>
                    /\ HasEdge(graph, SentenceId(i), SentenceId(j))
                          <=> Cardinality(common(i, j)) >= call.min_common_words
                    /\ HasEdge(graph, SentenceId(i), SentenceId(j))
                          => graph.eattr[{SentenceId(i), SentenceId(j)}] =
                               [weight |-> Frac(Cardinality(common(i, j)),
                                                Max(Cardinality(set(i)),
                                                    Cardinality(set(j)))),
                                common_words |-> Cardinality(common(i, j))]
           /\ \A e \in EdgeSet(graph) :
                  \E i \in indices, j \in indices :
                      i < j /\ e = {SentenceId(i), SentenceId(j)}

\* three sentences with min_common_words 1: two of them have the same words
\* (weight 1), the third has one word more (weight 1/2)
C14_Witness ==
    /\ call.op = "build_sentence_graph"
    /\ call.min_common_words = 1
    /\ Len(graph.order) = 3
    /\ Cardinality(EdgeSet(graph)) = 3
    /\ \E e \in EdgeSet(graph) :
           graph.eattr[e] = [weight |-> <<1, 1>>, common_words |-> 1]
    /\ \E e \in EdgeSet(graph) :
           graph.eattr[e] = [weight |-> <<1, 2>>, common_words |-> 1]

(***************************************************************************)
(* C15: on a graph made of two triangles with no edge between them,        *)
(* find_communities returns exactly two communities, each the three nodes  *)
(* of one triangle.                                                        *)
(***************************************************************************)
C15_TwoTriangles ==
    (/\ call.op = "find_communities"
     /\ NodeSet(graph) = {"a", "b", "c", "d", "e", "f"}
     /\ EdgeSet(graph) = {{"a", "b"}, {"b", "c"}, {"a", "c"},
                          {"d", "e"}, {"e", "f"}, {"d", "f"}})
    => /\ exc = "none"
       /\ BagCardinality(ret) = 2
       /\ BagToSet(ret) = {{"a", "b", "c"}, {"d", "e", "f"}}

\* the two triangles, the second one entered first
C15_Witness ==
    /\ call.op = "find_communities"
    /\ Len(graph.order) = 6
    /\ graph.order[1] \in {"d", "e", "f"}
    /\ EdgeSet(graph) = {{"a", "b"}, {"b", "c"}, {"a", "c"},
                         {"d", "e"}, {"e", "f"}, {"d", "f"}}
    /\ BagCardinality(ret) = 2

(***************************************************************************)
(* C16: the communities find_communities returns are non-empty, pairwise   *)
(* disjoint and together cover exactly the node set; on the empty graph    *)
(* the result is the empty list.                                           *)
(***************************************************************************)
C16_CommunitiesPartition ==
    call.op = "find_communities"
    => /\ exc = "none"
       /\ NodeSet(graph) = {} => ret = EmptyBag
       /\ \A A \in BagToSet(ret) :
              /\ A # {}
              /\ CopiesIn(A, ret) = 1
              /\ \A B \in BagToSet(ret) : A # B => A \cap B = {}
       /\ UNION BagToSet(ret) = NodeSet(graph)

\* four nodes: a community of two or more nodes, and a node without edges
\* in a community of its own
C16_Witness ==
    /\ call.op = "find_communities"
    /\ Len(graph.order) = 4
    /\ \E A \in BagToSet(ret) : Cardinality(A) >= 2
    /\ \E n \in NodeSet(graph) : Neighbors(graph, n) = {} /\ {n} \in BagToSet(ret)

(***************************************************************************)
(* C17: get_central_concepts, find_communities, find_shortest_path,        *)
(* get_neighborhood, get_graph_statistics and export_graph_data leave the  *)
(* nodes, the edges and all their attributes as they found them, whatever  *)
(* the arguments; what the call returned is what the same call returns on  *)
(* the graph it left.                                                      *)
(***************************************************************************)
C17_QueriesLeaveGraph ==
    /\ call.op \in {"get_central_concepts", "find_communities",
                     "find_shortest_path", "get_neighborhood",
                     "get_graph_statistics", "export_graph_data"}
       => graph = pre
    /\ call.op = "get_central_concepts"
       => /\ ret = GetCentralConcepts(graph, call.top_n, call.centrality_type,
                                      call.converges).val
          /\ exc = GetCentralConcepts(graph, call.top_n, call.centrality_type,
                                      call.converges).exc
    /\ call.op = "find_communities" => ret \in FindCommunities(graph)
    /\ call.op = "find_shortest_path"
       => ret = FindShortestPath(graph, call.concept1, call.concept2).val
    /\ call.op = "get_neighborhood"
       => ret = GetNeighborhood(graph, call.concept, call.radius)
    /\ call.op = "get_graph_statistics" => ret = GetGraphStatistics(graph)
    /\ call.op = "export_graph_data" => ret = ExportGraphData(graph)

\* an export of a graph that holds a self-loop and a second edge
C17_Witness ==
    /\ call.op = "export_graph_data"
    /\ Len(ret.nodes) >= 2
    /\ \E e \in EdgeSet(graph) : Cardinality(e) = 1
    /\ \E e \in EdgeSet(graph) : Cardinality(e) = 2
    /\ graph = pre

(***************************************************************************)
(* C18: export_graph_data has as many node entries as the graph has nodes  *)
(* and as many edge entries as it has edges, and the statistics it embeds  *)
(* report the same two counts.                                             *)
(***************************************************************************)
C18_ExportCounts ==
    call.op = "export_graph_data"
    => /\ Len(ret.nodes) = Cardinality(NodeSet(graph))
       /\ BagCardinality(ret.edges) = Cardinality(EdgeSet(graph))
       /\ ret.statistics.nodes = Cardinality(NodeSet(graph))
       /\ ret.statistics.edges = Cardinality(EdgeSet(graph))

\* an export with three node entries and two edge entries, one of them for
\* a self-loop
C18_Witness ==
    /\ call.op = "export_graph_data"
    /\ Len(ret.nodes) = 3
    /\ BagCardinality(ret.edges) = 2
    /\ \E x \in BagToSet(ret.edges) : x.source = x.target
    /\ ret.statistics.edges = 2

(***************************************************************************)
(* C19: every node entry of export_graph_data carries the identifier of    *)
(* its node and all of the node's attributes, and every edge has an entry  *)
(* that carries its two endpoints and all of its attributes, whatever the  *)
(* names of the attributes given to add_concept_node and add_relationship. *)
(***************************************************************************)
C19_ExportCarriesAll ==
    call.op = "export_graph_data"
    => /\ \A i \in DOMAIN ret.nodes :
              /\ ret.nodes[i].id = graph.order[i]
              /\ \A k \in DOMAIN graph.nattr[graph.order[i]] :
                     /\ k \in DOMAIN ret.nodes[i]
                     /\ ret.nodes[i][k] = graph.nattr[graph.order[i]][k]
       /\ \A e \in EdgeSet(graph) :
              \E x \in BagToSet(ret.edges) :
                  /\ {x.source, x.target} = e
                  /\ \A k \in DOMAIN graph.eattr[e] :
                         k \in DOMAIN x /\ x[k] = graph.eattr[e][k]

(***************************************************************************)
(* C20: add_relationship calls on one pair of nodes, in either argument    *)
(* order, leave at most one edge between them; a call on a pair that is    *)
(* already joined leaves the number of edges as it was, sets the weight    *)
(* (and the relationship type) of the edge to those of the call, and keeps *)
(* every other attribute that the call does not name.                      *)
(***************************************************************************)
C20_OneEdgePerPair ==
    /\ Cardinality(EdgeSet(graph)) <= 1
    /\ (call.op = "add_relationship" /\ exc = "none")
       => LET e == {call.concept1, call.concept2}
              set == {"relationship", "weight"} \cup DOMAIN call.attributes
          IN  /\ e \in EdgeSet(graph)
              /\ graph.eattr[e].weight = <<call.weight, 1>>
              /\ graph.eattr[e].relationship = call.relationship_type
              /\ \A k \in DOMAIN call.attributes :
                     graph.eattr[e][k] = call.attributes[k]
              /\ e \in EdgeSet(pre)
                 => /\ Cardinality(EdgeSet(graph)) = Cardinality(EdgeSet(pre))
                    /\ DOMAIN graph.eattr[e] = DOMAIN pre.eattr[e] \cup set
                    /\ \A k \in DOMAIN pre.eattr[e] \ set :
                           graph.eattr[e][k] = pre.eattr[e][k]

\* the pair was joined as (a, x) with weight 1 and a note; the call joins
\* it again as (x, a) with weight 2 and no keyword attribute
C20_Witness ==
    /\ call.op = "add_relationship"
    /\ exc = "none"
    /\ call.concept1 = "x"
    /\ call.concept2 = "a"
    /\ call.weight = 2
    /\ DOMAIN call.attributes = {}
    /\ pre.order = <<"a", "x">>
    /\ HasEdge(pre, "a", "x")
    /\ pre.eattr[{"a", "x"}].weight = <<1, 1>>
    /\ "note" \in DOMAIN pre.eattr[{"a", "x"}]
    /\ graph.eattr[{"a", "x"}].weight = <<2, 1>>
    /\ graph.eattr[{"a", "x"}].note = "n"
    /\ Cardinality(EdgeSet(graph)) = 1

(***************************************************************************)
(* C21: add_concept_node on an identifier that is already a node leaves    *)
(* the nodes, their order and all edges as they were and merges the        *)
(* attributes: the keys of the call take the values of the call, the other *)
(* keys keep theirs.  On a new identifier it appends one node that carries *)
(* the attributes of the call.  A second call with the same arguments      *)
(* changes nothing.                                                        *)
(***************************************************************************)
C21_AddNodeUpsert ==
    call.op = "add_concept_node"
    => LET c == call.concept
           given == DOMAIN call.attributes
       IN  /\ exc = "none"
           /\ graph.eattr = pre.eattr
           /\ \A n \in NodeSet(pre) \ {c} : graph.nattr[n] = pre.nattr[n]
           /\ \A k \in given : graph.nattr[c][k] = call.attributes[k]
           /\ HasNode(pre, c)
              => /\ graph.order = pre.order
                 /\ DOMAIN graph.nattr[c] = DOMAIN pre.nattr[c] \cup given
                 /\ \A k \in DOMAIN pre.nattr[c] \ given :
                        graph.nattr[c][k] = pre.nattr[c][k]
           /\ ~HasNode(pre, c)
              => /\ graph.order = Append(pre.order, c)
                 /\ DOMAIN graph.nattr[c] = given
           /\ GraphAddNode(graph, c, call.attributes) = graph

\* node x had type t, an attribute named id and an edge; the call gives
\* type u: the type is overwritten, the other attribute and the edge stay
C21_Witness ==
    /\ call.op = "add_concept_node"
    /\ call.concept = "x"
    /\ HasNode(pre, "x")
    /\ DOMAIN pre.nattr["x"] = {"type", "id"}
    /\ pre.nattr["x"].type = "t"
    /\ HasEdge(pre, "a", "x")
    /\ DOMAIN call.attributes = {"type"}
    /\ graph.nattr["x"].type = "u"
    /\ graph.nattr["x"].id = "t"
    /\ HasEdge(graph, "a", "x")

(***************************************************************************)
(* C22: on the empty graph no analyzer raises and each returns an empty    *)
(* result: get_central_concepts the empty list, find_communities the empty *)
(* list, get_graph_statistics exactly nodes 0, edges 0, density 0 and      *)
(* connected_components 0; find_shortest_path returns None and             *)
(* get_neighborhood the empty set.                                         *)
(***************************************************************************)
C22_EmptyGraphAnalyzers ==
    NodeSet(graph) = {}
    => /\ call.op \in {"get_central_concepts", "find_communities",
                        "get_graph_statistics", "find_shortest_path",
                        "get_neighborhood", "export_graph_data"}
          => exc = "none"
       /\ call.op = "get_central_concepts" => ret = <<>>
       /\ call.op = "find_communities" => ret = EmptyBag
       /\ call.op = "get_graph_statistics"
          => ret = [nodes |-> 0, edges |-> 0, density |-> <<0, 1>>,
                    connected_components |-> 0]
       /\ call.op = "find_shortest_path" => ret = None
       /\ call.op = "get_neighborhood" => ret = {}

\* the statistics of a graph that a builder left empty: the text of the
\* build had no pair of tokens to count
C22_Witness ==
    /\ call.op = "get_graph_statistics"
    /\ NodeSet(graph) = {}
    /\ ptext # <<>>
    /\ ret.nodes = 0
    /\ ret.connected_components = 0

(***************************************************************************)
(* C23: get_central_concepts with type eigenvector does not raise when the *)
(* power iteration exceeds its iteration budget: it returns exactly the    *)
(* ranking that type degree returns on the same graph with the same top_n. *)
(***************************************************************************)
C23_EigenvectorFallback ==
    (/\ call.op = "get_central_concepts"
     /\ call.centrality_type = "eigenvector"
     /\ ~call.converges)
    => /\ exc = "none"
       /\ ret = GetCentralConcepts(graph, call.top_n, "degree", TRUE).val
       /\ Len(ret) = Min(call.top_n, Len(graph.order))
       /\ Len(graph.order) >= 2
          => \A i \in DOMAIN ret : ret[i][2] = DegreeScore(graph, ret[i][1])

\* the iteration failed on a graph of three or more nodes of unequal degree
\* and the whole ranking was asked for
C23_Witness ==
    /\ call.op = "get_central_concepts"
    /\ call.centrality_type = "eigenvector"
    /\ ~call.converges
    /\ call.top_n = 10
    /\ Len(ret) >= 3
    /\ ret[1][2] # ret[Len(ret)][2]
    /\ exc = "none"

(***************************************************************************)
(* C24: clear leaves the graph with no node, no edge and no attribute,     *)
(* whatever it held; on an empty graph it changes nothing; and a store     *)
(* that is empty again takes insertions as a new store does.               *)
(***************************************************************************)
C24_ClearEmpties ==
    /\ call.op = "clear"
       => /\ exc = "none"
          /\ NodeSet(graph) = {}
          /\ EdgeSet(graph) = {}
          /\ graph = EmptyGraph
          /\ (NodeSet(pre) = {} => graph = pre)
    /\ (call.op = "add_concept_node" /\ pre = EmptyGraph)
       => (graph.order = <<call.concept>> /\ EdgeSet(graph) = {})
    /\ (call.op = "add_relationship" /\ pre = EmptyGraph /\ exc = "none")
       => /\ NodeSet(graph) = {call.concept1, call.concept2}
          /\ EdgeSet(graph) = {{call.concept1, call.concept2}}

\* clear on a store that held three or more nodes, attributes and edges
C24_Witness ==
    /\ call.op = "clear"
    /\ Len(pre.order) >= 3
    /\ \E n \in NodeSet(pre) : DOMAIN pre.nattr[n] # {}
    /\ EdgeSet(pre) # {}
    /\ graph = EmptyGraph

(***************************************************************************)
(* C25: for every integer window size w and every position i, the window   *)
(* build_cooccurrence_graph scans at i is made of at most w consecutive    *)
(* tokens starting at i, so every edge of the built graph joins two tokens *)
(* that occur fewer than w positions apart somewhere in the text.          *)
(***************************************************************************)
C25_WindowAtMostW ==
    call.op = "build_cooccurrence_graph"
    => LET words == tokenize_words(call.text, call.lowercase)
           w == call.window_size
       IN  /\ \A i \in 0..(Len(words) - 1) :
                  LET window == PySlice(words, i, i + w)
                  IN  /\ Len(window) <= Max(w, 0)
                      /\ window = SubSeq(words, i + 1, i + Len(window))
           /\ \A e \in EdgeSet(graph) :
                  \E p \in DOMAIN words, q \in DOMAIN words :
                      /\ p < q
                      /\ q - p < w
                      /\ {words[p], words[q]} = e

(***************************************************************************)
(* C26: after build_cooccurrence_graph every node has an incident edge,    *)
(* and that edge stands for a pair counted at least min_frequency times:   *)
(* a token none of whose pairs reached min_frequency is not a node.        *)
(***************************************************************************)
C26_NoIsolatedToken ==
    call.op = "build_cooccurrence_graph"
    => LET words == tokenize_words(call.text, call.lowercase)
           count(a, b) == PairCount(words, call.window_size, a, b)
           qualifies(a, b) == count(a, b) >= 1 /\ count(a, b) >= call.min_frequency
       IN  /\ \A n \in NodeSet(graph) : \E e \in EdgeSet(graph) : n \in e
           /\ NodeSet(graph) \subseteq Range(words)
           /\ \A t \in Range(words) :
                  t \in NodeSet(graph) <=> \E b \in Range(words) : qualifies(t, b)

\* a text with the tokens a and b whose build has edges and leaves out b
C26_Witness ==
    /\ call.op = "build_cooccurrence_graph"
    /\ Range(tokenize_words(call.text, call.lowercase)) = {"a", "b"}
    /\ NodeSet(graph) = {"a"}
    /\ EdgeSet(graph) # {}

(***************************************************************************)
(* C27: get_neighborhood on a concept that is not a node returns the empty *)
(* set for every radius, raises nothing and does not make the concept a    *)
(* node.                                                                   *)
(***************************************************************************)
C27_AbsentNeighborhood ==
    (call.op = "get_neighborhood" /\ ~HasNode(pre, call.concept))
    => /\ ret = {}
       /\ exc = "none"
       /\ graph = pre
       /\ ~HasNode(graph, call.concept)

\* radius 3 on a concept that is no node of a graph with four nodes
C27_Witness ==
    /\ call.op = "get_neighborhood"
    /\ call.radius = 3
    /\ Len(graph.order) = 4
    /\ EdgeSet(graph) # {}
    /\ ~HasNode(graph, call.concept)
    /\ ret = {}

(***************************************************************************)
(* C28: whatever load_text and segment_sentences calls came before,        *)
(* segment_sentences returns the segmentation of the text loaded last: the *)
(* cache never holds the sentences of another text, load_text empties it,  *)
(* and a call that finds the cache filled returns what it holds.           *)
(***************************************************************************)
C28_SentencesOfLoadedText ==
    /\ psent.cached => psent.val = segment_sentences(ptext)
    /\ call.op = "load_text" => (ptext = call.text /\ ~psent.cached)
    /\ call.op = "segment_sentences"
       => /\ exc = "none"
          /\ ret = segment_sentences(ptext)
          /\ psent = [cached |-> TRUE, val |-> ret]

\* segment_sentences returned three sentences of a text of four lexemes
C28_Witness ==
    /\ call.op = "segment_sentences"
    /\ Len(ptext) = 4
    /\ Len(ret) = 3
    /\ psent.cached
    /\ psent.val = ret

====
